---- MODULE Spec2Model ----
(***************************************************************************)
(* The incremental synchronisation engine of the Telegram sync dashboard:  *)
(* the GET handler of app/api/cron/telegram-sync/route.ts (the first,      *)
(* OSS-enabled handler of that file, lines 22-423), the three tables it    *)
(* writes (telegram_chats, telegram_messages, telegram_sync_runs) and the  *)
(* message source it reads through client.getMessages.                     *)
(*                                                                         *)
(* One action per await-delimited step of the handler.  A run is an        *)
(* invocation of a process p, which is invoked again and again; Spec lets  *)
(* one process run (non-overlapping runs, any number of them).             *)
(*                                                                         *)
(* Two abstractions keep the state finite over unboundedly many runs:      *)
(* telegram_sync_runs keeps, per process, the row of its newest invocation *)
(* (the handler never reads or writes the row of an earlier one), and      *)
(* last_synced_at is kept relative to the start of the newest invocation   *)
(* (NULL, "earlier", "current").                                           *)
(***************************************************************************)
EXTENDS Integers, Sequences, FiniteSets, Bags, TLC

\* ------------------------------------------------------------------ bounds
\* number of messages posted in the chats, all chats together
MaxPublished == 3
\* number of failures of a collaborator (an error answer, a throw, a failed
\* lookup, the platform's deadline) in one behaviour
MaxFaults == 1
\* largest cursor value of the chat records the window is computed for
MaxCursor == 3
\* length of the value of the environment variable ALLOWED_CHANNELS
MaxAllowLen == 3
\* number of messages of the batch the message loop is run on
MaxBatch == 2
\* number of messages posted in the chat of the runs without failures
MaxArrivals == 4

\* ------------------------------------------------------- program constants
\* route.ts:17 sets 50; scaled down so that the cap can bite within MaxId
MAX_MESSAGES_PER_CHAT == 2
\* route.ts:231 Number.MAX_SAFE_INTEGER (2^53 - 1); only its being above
\* every message id matters, so the largest integer of the checker stands in
MAX_SAFE_INTEGER == 2147483647

NULL == "null"

\* the run processes; Spec schedules only the first
Procs == {1, 2}

\* the chats that have messages and may get a telegram_chats row
Chats == {"c1", "c2"}

\* ------------------------------------------------------------ the source
\* A source message as GramJS delivers it: message is the text ('' when
\* absent), media the className of the attached media or NULL, mimeType the
\* media.document.mimeType as the sequence of its two parts (empty when there
\* is no document).
Payloads ==
  { [message |-> "hi", media |-> NULL, mimeType |-> <<>>],
    [message |-> "",   media |-> "MessageMediaPhoto", mimeType |-> <<>>],
    [message |-> "",   media |-> NULL, mimeType |-> <<>>] }

\* the payloads with the other kinds of media: an image sent as a file, a
\* video sent as a file, a location
RichPayloads ==
  Payloads \cup
  { [message |-> "", media |-> "MessageMediaDocument",
     mimeType |-> <<"image", "png">>],
    [message |-> "", media |-> "MessageMediaDocument",
     mimeType |-> <<"video", "mp4">>],
    [message |-> "hi", media |-> "MessageMediaGeo", mimeType |-> <<>>] }

\* c1 carries every kind of message, c2 is a text-only group
PayloadsOf(c) ==
  IF c = "c1" THEN Payloads
  ELSE { [message |-> "hi", media |-> NULL, mimeType |-> <<>>] }

\* Strings are sequences of characters.  The character "a" stands for the
\* channel name of route.ts:102, "b" for other text.
Alphabet == {"a", "b", ",", " "}

\* the strings of at most n characters
Strings(n) == UNION { [1..k -> Alphabet] : k \in 0..n }

\* the conversations the account can see (entity of a dialog), with the
\* title of the dialog; id is the bare id of the entity, which a basic group
\* and a channel take from different ranges of ids: c2 and g2 are different
\* conversations with the same bare id
Entities ==
  [ c1 |-> [id |-> "c1", className |-> "Channel", megagroup |-> FALSE,
            broadcast |-> TRUE,  title |-> <<"a", "b">>],
    c2 |-> [id |-> "c2", className |-> "Chat",    megagroup |-> FALSE,
            broadcast |-> FALSE, title |-> <<"a">>],
    u1 |-> [id |-> "u1", className |-> "User",    megagroup |-> FALSE,
            broadcast |-> FALSE, title |-> <<"a">>],
    x1 |-> [id |-> "x1", className |-> "Channel", megagroup |-> FALSE,
            broadcast |-> TRUE,  title |-> <<"b">>],
    g2 |-> [id |-> "c2", className |-> "Channel", megagroup |-> FALSE,
            broadcast |-> TRUE,  title |-> <<"a">>] ]

\* the listings client.getDialogs may answer with
Listings ==
  { <<"c1", "u1", "c2", "x1">>, <<"c2">>, <<"c2", "g2">>, <<"x1", "u1">> }

VARIABLES
  source,              \* source[c]: the messages of chat c, id = position
  telegram_chats,      \* table telegram_chats, keyed by chat_id
  telegram_messages,   \* table telegram_messages, a bag of rows
  telegram_sync_runs,  \* telegram_sync_runs[p]: the row of p's newest run
  run,                 \* run[p]: the locals of handler invocation p
  response,            \* response[p]: the last HTTP response of p
  oss_configured,      \* the OSS_* environment variables are all set
  env_ALLOWED_CHANNELS, \* process.env.ALLOWED_CHANNELS: set or not, value
  env_CRON_SECRET,     \* process.env.CRON_SECRET: set or not, value
  request,             \* a request that arrives at the middleware
  verdict,             \* what the middleware answers to it
  faults               \* failures of collaborators so far

vars == <<source, telegram_chats, telegram_messages, telegram_sync_runs,
          run, response, oss_configured, env_ALLOWED_CHANNELS, env_CRON_SECRET, request, verdict, faults>>

\* ------------------------------------------------------------------ helpers
\* no request at the middleware (a request of the scheduler, not looked at)
NoRequest ==
  [pathname |-> <<"api", "cron", "telegram-sync">>, authorization |-> <<>>,
   host |-> <<>>, x_vercel_cron |-> NULL, admin_token |-> FALSE,
   origin |-> "scheduler"]

\* the middleware has not answered
NoVerdict == [old |-> "none", new |-> "none"]

Max(S) == CHOOSE m \in S : \A k \in S : k <= m

RECURSIVE Descending(_, _)
\* the n largest elements of S, largest first
Descending(S, n) ==
  IF S = {} \/ n = 0 THEN <<>>
  ELSE LET m == Max(S) IN <<m>> \o Descending(S \ {m}, n - 1)

\* String.prototype.startsWith, on sequences of parts
StartsWith(s, prefix) ==
  Len(s) >= Len(prefix) /\ SubSeq(s, 1, Len(prefix)) = prefix

RECURSIVE Split(_)
\* String.prototype.split(','): the pieces between the commas, the empty
\* ones included; a string without a comma (the empty string too) is one piece
Split(s) ==
  IF \A k \in 1..Len(s) : s[k] # "," THEN <<s>>
  ELSE LET k == CHOOSE k \in 1..Len(s) :
                  s[k] = "," /\ \A j \in 1..(k - 1) : s[j] # ","
       IN <<SubSeq(s, 1, k - 1)>> \o Split(SubSeq(s, k + 1, Len(s)))

RECURSIVE Trim(_)
\* String.prototype.trim()
Trim(s) ==
  IF s = <<>> THEN s
  ELSE IF Head(s) = " " THEN Trim(Tail(s))
  ELSE IF s[Len(s)] = " " THEN Trim(SubSeq(s, 1, Len(s) - 1))
  ELSE s

\* String.prototype.includes(name): name occurs in title; '' occurs in
\* every string
Includes(title, name) ==
  \E k \in 0..(Len(title) - Len(name)) :
    SubSeq(title, k + 1, k + Len(name)) = name

\* route.ts:102 the fallback list
DefaultChannels == << <<"a">> >>

\* route.ts:102 process.env.ALLOWED_CHANNELS?.split(',') || [default]; an
\* array is truthy, so the fallback is taken only when the variable is unset
ALLOWED_CHANNELS ==
  IF env_ALLOWED_CHANNELS.set THEN Split(env_ALLOWED_CHANNELS.value)
  ELSE DefaultChannels

\* route.ts:105-118 the filter of the dialogs
IsTarget(d) ==
  LET entity == Entities[d]
      title == entity.title
      isAllowed == \E k \in 1..Len(ALLOWED_CHANNELS) :
                     Includes(title, Trim(ALLOWED_CHANNELS[k]))
  IN
  IF ~isAllowed THEN FALSE
  ELSE \/ entity.className = "Channel"
       \/ entity.className = "Chat"
       \/ entity.megagroup = TRUE
       \/ entity.broadcast = TRUE

TargetDialogs(dialogs) == SelectSeq(dialogs, IsTarget)

\* a full-backfill request pages backward only when oldest_message_id is
\* below last_message_id, and asks for the most recent messages otherwise
Window_FullStartsAtTop(forceFullSync, oldestMessageId, lastMessageId) ==
  IF forceFullSync THEN
    IF oldestMessageId > 0 /\ oldestMessageId < lastMessageId THEN
      [limit |-> MAX_MESSAGES_PER_CHAT, offsetId |-> oldestMessageId, minId |-> 0]
    ELSE
      [limit |-> MAX_MESSAGES_PER_CHAT, offsetId |-> 0, minId |-> 0]
  ELSE IF lastMessageId > 0 THEN
    [limit |-> MAX_MESSAGES_PER_CHAT, offsetId |-> 0, minId |-> lastMessageId]
  ELSE
    [limit |-> MAX_MESSAGES_PER_CHAT, offsetId |-> 0, minId |-> 0]

\* an incremental request bounds the page from above as well
Window_BothBounds(forceFullSync, oldestMessageId, lastMessageId) ==
  IF forceFullSync THEN
    IF oldestMessageId > 0 THEN
      [limit |-> MAX_MESSAGES_PER_CHAT, offsetId |-> oldestMessageId, minId |-> 0]
    ELSE IF lastMessageId > 0 THEN
      [limit |-> MAX_MESSAGES_PER_CHAT, offsetId |-> lastMessageId + 1, minId |-> 0]
    ELSE
      [limit |-> MAX_MESSAGES_PER_CHAT, offsetId |-> 0, minId |-> 0]
  ELSE IF lastMessageId > 0 THEN
    [limit |-> MAX_MESSAGES_PER_CHAT,
     offsetId |-> lastMessageId + MAX_MESSAGES_PER_CHAT + 1,
     minId |-> lastMessageId]
  ELSE
    [limit |-> MAX_MESSAGES_PER_CHAT, offsetId |-> 0, minId |-> 0]

\* the backward page of a chat that has only last_message_id starts at
\* last_message_id instead of last_message_id + 1
Window_OffsetAtLast(forceFullSync, oldestMessageId, lastMessageId) ==
  IF forceFullSync THEN
    IF oldestMessageId > 0 THEN
      [limit |-> MAX_MESSAGES_PER_CHAT, offsetId |-> oldestMessageId, minId |-> 0]
    ELSE
      [limit |-> MAX_MESSAGES_PER_CHAT, offsetId |-> lastMessageId, minId |-> 0]
  ELSE
    [limit |-> MAX_MESSAGES_PER_CHAT, offsetId |-> 0, minId |-> lastMessageId]

\* an incremental request never sends minId: it asks for the most recent
\* messages whatever the chat record holds
Window_IncrementalFromTop(forceFullSync, oldestMessageId, lastMessageId) ==
  IF forceFullSync THEN
    IF oldestMessageId > 0 THEN
      [limit |-> MAX_MESSAGES_PER_CHAT, offsetId |-> oldestMessageId, minId |-> 0]
    ELSE IF lastMessageId > 0 THEN
      [limit |-> MAX_MESSAGES_PER_CHAT, offsetId |-> lastMessageId + 1, minId |-> 0]
    ELSE
      [limit |-> MAX_MESSAGES_PER_CHAT, offsetId |-> 0, minId |-> 0]
  ELSE
    [limit |-> MAX_MESSAGES_PER_CHAT, offsetId |-> 0, minId |-> 0]

\* route.ts:185-221 the request sent to client.getMessages; 0 stands for a
\* parameter that is not supplied (GramJS's default for offsetId and minId)
Window(forceFullSync, oldestMessageId, lastMessageId) ==
  IF forceFullSync THEN
    IF oldestMessageId > 0 THEN
      [limit |-> MAX_MESSAGES_PER_CHAT, offsetId |-> oldestMessageId, minId |-> 0]
    ELSE IF lastMessageId > 0 THEN
      [limit |-> MAX_MESSAGES_PER_CHAT, offsetId |-> lastMessageId + 1, minId |-> 0]
    ELSE
      [limit |-> MAX_MESSAGES_PER_CHAT, offsetId |-> 0, minId |-> 0]
  ELSE IF lastMessageId > 0 THEN
    [limit |-> MAX_MESSAGES_PER_CHAT, offsetId |-> 0, minId |-> lastMessageId]
  ELSE
    [limit |-> MAX_MESSAGES_PER_CHAT, offsetId |-> 0, minId |-> 0]

\* client.getMessages: the `limit` most recent messages with id below
\* offsetId (when supplied) and above minId, newest first
GetMessages(history, w) ==
  LET ids == { k \in 1..Len(history) :
                 /\ (w.offsetId = 0 \/ k < w.offsetId)
                 /\ k > w.minId }
      top == Descending(ids, w.limit)
  IN [j \in 1..Len(top) |->
        [id |-> top[j], message |-> history[top[j]].message,
         media |-> history[top[j]].media,
         mimeType |-> history[top[j]].mimeType]]

\* the guard tests for an absent value instead of a falsy one, so the
\* empty text '' passes
IsSkipped_OnlyAbsent(msg) == (msg.message = NULL) /\ (msg.media = NULL)

\* no message is skipped
IsSkipped_Never(msg) == FALSE

\* route.ts:236 the guard that skips a message
IsSkipped(msg) == (msg.message = "") /\ (msg.media = NULL)

\* the candidate is overwritten by every message instead of compared
TrackMax_Latest(maxMsgId, messageId) == messageId

\* route.ts:239 the running maximum of the message ids of the batch
TrackMax(maxMsgId, messageId) ==
  IF messageId > maxMsgId THEN messageId ELSE maxMsgId

\* route.ts:240
TrackMin(minMsgId, messageId) ==
  IF messageId < minMsgId THEN messageId ELSE minMsgId

\* route.ts:326-343 the record handed to upsert
Normalize(chatId, msg, senderName, mediaUrl) ==
  [chat_id |-> chatId, message_id |-> msg.id, sender_name |-> senderName,
   text |-> msg.message, has_media |-> (msg.media # NULL),
   media_type |-> msg.media, media_url |-> mediaUrl]

SameKey(r, row) == r.chat_id = row.chat_id /\ r.message_id = row.message_id

\* a plain insert into a table without the UNIQUE (chat_id, message_id)
Upsert_PlainInsert(table, row) == table (+) SetToBag({row})

\* route.ts:324-347 upsert with onConflict (chat_id, message_id) and
\* ignoreDuplicates false: the conflicting row is overwritten
Upsert(table, row) ==
  LET keep == { r \in DOMAIN table : ~SameKey(r, row) }
  IN [r \in keep |-> table[r]] (+) SetToBag({row})

\* the number of rows of telegram_messages stored for chat c
RowCount(table, c) ==
  BagCardinality([r \in { x \in DOMAIN table : x.chat_id = c } |-> table[r]])

\* the block of route.ts:365-368 assigns last_message_id instead of
\* oldest_message_id
UpdateData_OldestBlockWritesLast(maxMsgId, minMsgId, lastMessageId, oldestMessageId, now) ==
  LET lower == minMsgId < (IF oldestMessageId # 0 THEN oldestMessageId
                           ELSE MAX_SAFE_INTEGER)
  IN [last_synced_at |-> now,
      has_last |-> (maxMsgId > lastMessageId) \/ lower,
      last_message_id |-> IF lower THEN minMsgId ELSE maxMsgId,
      has_oldest |-> FALSE,
      oldest_message_id |-> minMsgId]

\* the block of route.ts:365-368 is a copy of the block of 361-363 with only
\* the column renamed
UpdateData_OldestFromMax(maxMsgId, minMsgId, lastMessageId, oldestMessageId, now) ==
  [last_synced_at |-> now,
   has_last |-> maxMsgId > lastMessageId,
   last_message_id |-> maxMsgId,
   has_oldest |-> maxMsgId > lastMessageId,
   oldest_message_id |-> maxMsgId]

\* the block of route.ts:365-368 moves last_message_id along with
\* oldest_message_id
UpdateData_BackfillMovesLast(maxMsgId, minMsgId, lastMessageId, oldestMessageId, now) ==
  LET lower == minMsgId < (IF oldestMessageId # 0 THEN oldestMessageId
                           ELSE MAX_SAFE_INTEGER)
  IN [last_synced_at |-> now,
      has_last |-> (maxMsgId > lastMessageId) \/ lower,
      last_message_id |-> IF maxMsgId > lastMessageId THEN maxMsgId
                          ELSE minMsgId,
      has_oldest |-> lower,
      oldest_message_id |-> minMsgId]

\* maxMsgId and minMsgId are written to each other's column
UpdateData_Swapped(maxMsgId, minMsgId, lastMessageId, oldestMessageId, now) ==
  [last_synced_at |-> now,
   has_last |-> maxMsgId > lastMessageId,
   last_message_id |-> minMsgId,
   has_oldest |-> minMsgId < (IF oldestMessageId # 0 THEN oldestMessageId
                              ELSE MAX_SAFE_INTEGER),
   oldest_message_id |-> maxMsgId]

\* route.ts:357-368 the columns of the cursor update; a flag tells whether
\* the column is part of the update
UpdateData(maxMsgId, minMsgId, lastMessageId, oldestMessageId, now) ==
  [last_synced_at |-> now,
   has_last |-> maxMsgId > lastMessageId,
   last_message_id |-> maxMsgId,
   has_oldest |-> minMsgId < (IF oldestMessageId # 0 THEN oldestMessageId
                              ELSE MAX_SAFE_INTEGER),
   oldest_message_id |-> minMsgId]

\* route.ts:370-373 UPDATE telegram_chats SET ... WHERE chat_id = ...
ApplyUpdate(rec, u) ==
  IF ~rec.exists THEN rec
  ELSE [rec EXCEPT
          !.last_synced_at = u.last_synced_at,
          !.last_message_id = IF u.has_last THEN u.last_message_id ELSE @,
          !.oldest_message_id = IF u.has_oldest THEN u.oldest_message_id ELSE @]

\* a telegram_chats row that does not exist
NoChat == [exists |-> FALSE, last_message_id |-> 0, oldest_message_id |-> 0,
           last_synced_at |-> NULL]

\* route.ts:151-160 the inserted row; oldest_message_id and last_synced_at
\* take their column default (absent, written 0)
NewChat == [exists |-> TRUE, last_message_id |-> 0, oldest_message_id |-> 0,
            last_synced_at |-> NULL]

\* the locals of a handler invocation that is not running; outcome (how
\* each iteration of the chat loop ended), rowsBefore (the rows the chat
\* had when its messages were fetched), stored (the message writes of the
\* run that succeeded), touched (whether the run wrote a row of
\* telegram_chats), failures (what failed in the last iteration of the message
\* loop), mediaResult (how its media pipeline ended) and delayed (the delay of
\* route.ts:384 has run since the last request for messages) are history, not
\* read by the handler
IdleLocals ==
  [pc |-> "idle", forceFullSync |-> FALSE, ossEnabled |-> FALSE,
   chatsSynced |-> 0, messagesSynced |-> 0,
   errorMessage |-> NULL, client |-> "none",
   dialogs |-> <<>>, targetDialogs |-> <<>>, idx |-> 0, outcome |-> <<>>,
   chatRecord |-> NoChat, lastMessageId |-> 0, oldestMessageId |-> 0,
   messages |-> <<>>, i |-> 0, maxMsgId |-> 0, minMsgId |-> 0,
   savedCount |-> 0, rowsBefore |-> 0,
   credentials |-> "unread", stored |-> 0, touched |-> FALSE,
   failures |-> {}, mediaResult |-> "none", delayed |-> FALSE]

\* no row of telegram_sync_runs; the table keeps the rows of all runs, the
\* model the newest row of each process and, in abandoned, whether an earlier
\* row of the process was left at 'running' (by a run that was killed)
NoRun == [status |-> NULL, finished |-> FALSE, chats_synced |-> 0,
          messages_synced |-> 0, error_message |-> NULL, abandoned |-> FALSE]

\* schema.sql:56-64 the row inserted with status 'running' and the defaults
RunningRun == [status |-> "running", finished |-> FALSE, chats_synced |-> 0,
               messages_synced |-> 0, error_message |-> NULL,
               abandoned |-> FALSE]

\* the start of a newer invocation makes every "current" timestamp "earlier"
Age(table) ==
  [c \in Chats |-> [table[c] EXCEPT
                      !.last_synced_at = IF @ = "current" THEN "earlier" ELSE @]]

\* no response yet; keys is the set of the keys of the JSON body, and a key
\* that is not in it has no value (its field here is a filler)
NoResponse == [status |-> 0, keys |-> {}, success |-> FALSE, chatsSynced |-> 0,
               messagesSynced |-> 0, error |-> NULL]

Init ==
  /\ source = [c \in Chats |-> <<>>]
  /\ telegram_chats = [c \in Chats |-> NoChat]
  /\ telegram_messages = EmptyBag
  /\ telegram_sync_runs = [p \in Procs |-> NoRun]
  /\ run = [p \in Procs |-> IdleLocals]
  /\ response = [p \in Procs |-> NoResponse]
  /\ oss_configured \in BOOLEAN
  /\ env_ALLOWED_CHANNELS = [set |-> FALSE, value |-> <<>>]
  /\ env_CRON_SECRET = [set |-> TRUE, value |-> "s1"]
  /\ request = NoRequest
  /\ verdict = NoVerdict
  /\ faults = 0

\* --------------------------------------------------------- the GET handler
\* a collaborator fails n times in this step
Fails(n) == faults + n <= MaxFaults /\ faults' = faults + n

\* route.ts:218 the messages of the entity of a dialog; a conversation
\* outside Chats has none
History(d) == IF d \in Chats THEN source[d] ELSE <<>>

\* chat_id of the dialog the loop of route.ts:122 is at
ChatId(r) == Entities[r.targetDialogs[r.idx]].id

\* the block-scoped locals of one loop iteration go out of scope
DropChatLocals(r) ==
  [r EXCEPT !.chatRecord = NoChat, !.lastMessageId = 0, !.oldestMessageId = 0,
            !.messages = <<>>, !.i = 0, !.maxMsgId = 0, !.minMsgId = 0,
            !.savedCount = 0, !.rowsBefore = 0]

\* route.ts:122 the for loop moves to the next dialog, or past the last one
\* to client.disconnect; tag records how the iteration ended
NextDialog(r, tag) ==
  [DropChatLocals(r) EXCEPT
     !.outcome = Append(@, tag),
     !.idx = @ + 1,
     !.pc = IF r.idx + 1 > Len(r.targetDialogs) THEN "disconnect" ELSE "select"]

\* route.ts:395-398 the catch at the run boundary
CatchRunError(r, message) == [r EXCEPT !.errorMessage = message, !.pc = "close"]

\* the catch of the chat records the message as the error of the run
CatchChatError_Recorded(r) ==
  [NextDialog(r, "error") EXCEPT !.errorMessage = "chat failed"]

\* the loop body has no try/catch of its own: the error of a chat reaches
\* the catch at the run boundary
CatchChatError_Uncaught(r) == CatchRunError(r, "chat failed")

\* the catch of the chat starts the same chat again
CatchChatError_Retry(r) ==
  [DropChatLocals(r) EXCEPT !.outcome = Append(@, "error"), !.pc = "select"]

\* route.ts:386-388 the catch at the chat boundary
CatchChatError(r) == NextDialog(r, "error")

\* oss.ts:13-19
isOSSConfigured == oss_configured

\* route.ts:22-51 the request arrives and the run record is inserted
StartRun(p) ==
  /\ run[p].pc = "idle"
  /\ \E full \in BOOLEAN :
       run' = [run EXCEPT ![p] =
         [IdleLocals EXCEPT !.pc = "env", !.forceFullSync = full,
                            !.ossEnabled = isOSSConfigured]]
  /\ telegram_sync_runs' = [telegram_sync_runs EXCEPT ![p] =
       [RunningRun EXCEPT !.abandoned =
          telegram_sync_runs[p].abandoned
          \/ telegram_sync_runs[p].status = "running"]]
  /\ telegram_chats' = Age(telegram_chats)
  /\ response' = [response EXCEPT ![p] = NoResponse]
  /\ UNCHANGED <<source, telegram_messages, oss_configured, env_ALLOWED_CHANNELS, env_CRON_SECRET, request, verdict, faults>>

\* route.ts:43-46 the insert of the run record fails
StartRunFails(p) ==
  /\ run[p].pc = "idle"
  /\ Fails(1)
  /\ response' = [response EXCEPT ![p] =
       [status |-> 500, keys |-> {"error"}, success |-> FALSE,
        chatsSynced |-> 0, messagesSynced |-> 0,
        error |-> "Failed to create sync run"]]
  /\ UNCHANGED <<source, telegram_chats, telegram_messages,
                 telegram_sync_runs, run, oss_configured, env_ALLOWED_CHANNELS, env_CRON_SECRET, request, verdict>>

\* a run with a missing credential goes on to connect
CheckEnv_NoCheck(r, present) ==
  [r EXCEPT !.credentials = IF present THEN "present" ELSE "missing",
            !.pc = "connect"]

\* route.ts:53-65 the credentials are read from the environment and
\* checked; present tells whether API id, API hash and session are all set
CheckEnv(r, present) ==
  IF present
  THEN [r EXCEPT !.credentials = "present", !.pc = "connect"]
  ELSE CatchRunError([r EXCEPT !.credentials = "missing"],
                     "missing credentials")

\* route.ts:53-65 a missing credential is one of the failures of the budget
ReadEnv(p) ==
  /\ run[p].pc = "env"
  /\ \E present \in BOOLEAN :
       /\ Fails(IF present THEN 0 ELSE 1)
       /\ run' = [run EXCEPT ![p] = CheckEnv(@, present)]
  /\ UNCHANGED <<source, telegram_chats, telegram_messages,
                 telegram_sync_runs, response, oss_configured, env_ALLOWED_CHANNELS, env_CRON_SECRET, request, verdict>>

\* route.ts:92-95 client.connect
Connect(p) ==
  /\ run[p].pc = "connect"
  /\ \/ /\ Fails(1)
        /\ run' = [run EXCEPT ![p] = CatchRunError(@, "connect failed")]
     \/ /\ Fails(0)
        /\ run' = [run EXCEPT ![p].pc = "dialogs", ![p].client = "connected"]
  /\ UNCHANGED <<source, telegram_chats, telegram_messages,
                 telegram_sync_runs, response, oss_configured, env_ALLOWED_CHANNELS, env_CRON_SECRET, request, verdict>>

\* route.ts:98-120 client.getDialogs and the filter
GetDialogs(p) ==
  /\ run[p].pc = "dialogs"
  /\ \/ /\ Fails(1)
        /\ run' = [run EXCEPT ![p] = CatchRunError(@, "getDialogs failed")]
     \/ /\ Fails(0)
        /\ \E dialogs \in Listings :
             LET targetDialogs == TargetDialogs(dialogs) IN
             run' = [run EXCEPT ![p].dialogs = dialogs,
                                ![p].targetDialogs = targetDialogs,
                                ![p].idx = 1,
                                ![p].pc = IF targetDialogs = <<>>
                                          THEN "disconnect" ELSE "select"]
  /\ UNCHANGED <<source, telegram_chats, telegram_messages,
                 telegram_sync_runs, response, oss_configured, env_ALLOWED_CHANNELS, env_CRON_SECRET, request, verdict>>

\* route.ts:141-147 and 170-176 select the chat record (the error of the
\* select is not looked at: a failed select reads as "no record"); a record
\* that is found gets its title, username and member_count refreshed, which
\* are not columns of this model
SelectChat(p) ==
  /\ run[p].pc = "select"
  /\ LET r == run[p]
         stored == telegram_chats[ChatId(r)]
     IN \/ /\ Fails(1)
           /\ run' = [run EXCEPT ![p].chatRecord = NoChat, ![p].pc = "insert"]
        \/ /\ Fails(0)
           /\ run' = [run EXCEPT ![p].chatRecord = stored,
                                 ![p].pc = IF stored.exists
                                           THEN "fetch" ELSE "insert"]
  /\ UNCHANGED <<source, telegram_chats, telegram_messages,
                 telegram_sync_runs, response, oss_configured, env_ALLOWED_CHANNELS, env_CRON_SECRET, request, verdict>>

\* route.ts:147-169 insert the chat record; chat_id is UNIQUE, so the insert
\* of a chat that has a row fails, and any insert may fail
InsertChat(p) ==
  /\ run[p].pc = "insert"
  /\ LET r == run[p]
         c == ChatId(r)
     IN \/ /\ telegram_chats[c].exists
           /\ Fails(0)
           /\ run' = [run EXCEPT ![p] = NextDialog(r, "skipped")]
           /\ UNCHANGED telegram_chats
        \/ /\ ~telegram_chats[c].exists
           /\ Fails(1)
           /\ run' = [run EXCEPT ![p] = NextDialog(r, "skipped")]
           /\ UNCHANGED telegram_chats
        \/ /\ ~telegram_chats[c].exists
           /\ Fails(0)
           /\ telegram_chats' = [telegram_chats EXCEPT ![c] = NewChat]
           /\ run' = [run EXCEPT ![p].chatRecord = NewChat,
                                 ![p].touched = TRUE, ![p].pc = "fetch"]
  /\ UNCHANGED <<source, telegram_messages, telegram_sync_runs, response,
                 oss_configured, env_ALLOWED_CHANNELS, env_CRON_SECRET, request, verdict>>

\* route.ts:179-221 the request that is sent for the chat record read
Request(r) ==
  Window(r.forceFullSync, r.chatRecord.oldest_message_id,
         r.chatRecord.last_message_id)

\* route.ts:179-232 read the cursors, request the window, leave the
\* iteration on an empty answer, else initialise the loop
FetchMessages(p) ==
  /\ run[p].pc = "fetch"
  /\ LET r == [run[p] EXCEPT !.delayed = FALSE]
         lastMessageId == r.chatRecord.last_message_id
         oldestMessageId == r.chatRecord.oldest_message_id
         messages == GetMessages(History(r.targetDialogs[r.idx]), Request(r))
     IN \/ /\ Fails(1)
           /\ run' = [run EXCEPT ![p] = CatchChatError(r)]
        \/ /\ Len(messages) = 0
           /\ Fails(0)
           /\ run' = [run EXCEPT ![p] = NextDialog(r, "empty")]
        \/ /\ Len(messages) > 0
           /\ Fails(0)
           /\ run' = [run EXCEPT ![p] =
                [r EXCEPT !.lastMessageId = lastMessageId,
                          !.oldestMessageId = oldestMessageId,
                          !.messages = messages,
                          !.i = 1,
                          !.maxMsgId = lastMessageId,
                          !.minMsgId = IF oldestMessageId # 0
                                       THEN oldestMessageId
                                       ELSE MAX_SAFE_INTEGER,
                          !.savedCount = 0,
                          !.rowsBefore = RowCount(telegram_messages, ChatId(r)),
                          !.pc = "loop"]]
  /\ UNCHANGED <<source, telegram_chats, telegram_messages,
                 telegram_sync_runs, response, oss_configured, env_ALLOWED_CHANNELS, env_CRON_SECRET, request, verdict>>

\* the media pipeline is tried for every kind of media
WantsUpload_AnyMedia(ossEnabled, msg) == msg.media # NULL /\ ossEnabled

\* route.ts:271-275 whether the media pipeline is tried for the message
WantsUpload(ossEnabled, msg) ==
  /\ msg.media # NULL
  /\ ossEnabled
  /\ \/ msg.media = "MessageMediaPhoto"
     \/ /\ msg.media = "MessageMediaDocument"
        /\ StartsWith(msg.mimeType, <<"image">>)

\* how the media pipeline of a message ends: not tried, client.downloadMedia
\* throws, it answers something that is not a Buffer, the upload fails, the
\* upload answers the URL
MediaResults == {"none", "download throws", "not a buffer", "upload fails", "ok"}

\* oss.ts:44-84 uploadBufferToOSS: the URL, or null when the pipeline is not
\* configured or when anything inside its try block throws
uploadBufferToOSS(putOk) ==
  IF ~isOSSConfigured THEN NULL
  ELSE IF putOk THEN "url"
  ELSE NULL

\* route.ts:264-302 mediaUrl after the media pipeline
MediaUrl(mediaResult) ==
  IF mediaResult = "ok" THEN uploadBufferToOSS(TRUE)
  ELSE IF mediaResult = "upload fails" THEN uploadBufferToOSS(FALSE)
  ELSE NULL

\* a failed sender lookup ends the iteration of the chat
Aborts_OnSender(failures) == failures \cap {"throw", "sender"} # {}

\* a failure of the media pipeline ends the iteration of the chat
Aborts_OnMedia(failures) == failures \cap {"throw", "media"} # {}

\* a failed write of a message ends the iteration of the chat
Aborts_OnWrite(failures) == failures \cap {"throw", "write"} # {}

\* route.ts:248-258, 277-300, 351-353 which failures of a message reach the
\* catch of the chat (386): the sender lookup and the media pipeline have a
\* try/catch of their own and the error answer of the upsert is only logged;
\* anything else that throws in the loop body does
Aborts(failures) == "throw" \in failures

\* the cursor update is started and not awaited: after the last message the
\* loop of the chats goes on to the next dialog at once
Advance_FireAndForget(r) ==
  IF r.i + 1 > Len(r.messages) THEN NextDialog(r, "synced")
  ELSE [r EXCEPT !.i = @ + 1]

\* route.ts:234 the loop moves to the next message or ends
Advance(r) ==
  [r EXCEPT !.i = @ + 1,
            !.pc = IF r.i + 1 > Len(r.messages) THEN "update" ELSE "loop"]

\* route.ts:234-354 one iteration of the message loop: the skip, the
\* cursor candidates, the sender lookup, the media pipeline, the upsert
ProcessMessage(p) ==
  /\ run[p].pc = "loop"
  /\ LET r == run[p]
         msg == r.messages[r.i]
     IN \/ /\ IsSkipped(msg)
           /\ Fails(0)
           /\ run' = [run EXCEPT ![p] =
                Advance([r EXCEPT !.failures = {}, !.mediaResult = "none"])]
           /\ UNCHANGED telegram_messages
        \/ /\ ~IsSkipped(msg)
           /\ \E senderOk \in BOOLEAN, mediaResult \in MediaResults,
                 writeOk \in BOOLEAN, thrown \in BOOLEAN :
                LET wants == WantsUpload(r.ossEnabled, msg)
                    senderName == IF senderOk THEN "name" ELSE NULL
                    mediaUrl == MediaUrl(mediaResult)
                    failures ==
                      (IF senderOk THEN {} ELSE {"sender"})
                        \cup (IF mediaResult \in {"none", "ok"}
                              THEN {} ELSE {"media"})
                        \cup (IF writeOk THEN {} ELSE {"write"})
                        \cup (IF thrown THEN {"throw"} ELSE {})
                    tracked == [r EXCEPT !.maxMsgId = TrackMax(@, msg.id),
                                         !.minMsgId = TrackMin(@, msg.id),
                                         !.failures = failures,
                                         !.mediaResult = mediaResult]
                IN /\ (mediaResult = "none") <=> ~wants
                   /\ Fails(Cardinality(failures))
                   /\ IF Aborts(failures)
                      THEN /\ UNCHANGED telegram_messages
                           /\ run' = [run EXCEPT ![p] =
                                [CatchChatError(r) EXCEPT
                                   !.failures = failures,
                                   !.mediaResult = mediaResult]]
                      ELSE IF writeOk
                      THEN /\ telegram_messages' = Upsert(telegram_messages,
                                Normalize(ChatId(r), msg, senderName, mediaUrl))
                           /\ run' = [run EXCEPT ![p] =
                                Advance([tracked EXCEPT !.savedCount = @ + 1,
                                                        !.stored = @ + 1])]
                      ELSE /\ UNCHANGED telegram_messages
                           /\ run' = [run EXCEPT ![p] = Advance(tracked)]
  /\ UNCHANGED <<source, telegram_chats, telegram_sync_runs, response,
                 oss_configured, env_ALLOWED_CHANNELS, env_CRON_SECRET,
                 request, verdict>>

\* route.ts:356-381 the cursor update (its error is only logged) and the
\* run counters
UpdateChat(p) ==
  /\ run[p].pc = "update"
  /\ LET r == run[p]
         c == ChatId(r)
         updateData == UpdateData(r.maxMsgId, r.minMsgId, r.lastMessageId,
                                  r.oldestMessageId, "current")
     IN \E applied \in BOOLEAN :
          /\ Fails(IF applied THEN 0 ELSE 1)
          /\ telegram_chats' = IF applied
                               THEN [telegram_chats EXCEPT
                                       ![c] = ApplyUpdate(@, updateData)]
                               ELSE telegram_chats
          /\ run' = [run EXCEPT ![p].messagesSynced = @ + r.savedCount,
                                ![p].chatsSynced = @ + 1,
                                ![p].touched = @ \/ applied,
                                ![p].pc = "delay"]
  /\ UNCHANGED <<source, telegram_messages, telegram_sync_runs, response,
                 oss_configured, env_ALLOWED_CHANNELS, env_CRON_SECRET, request, verdict>>

\* route.ts:384 the inter-chat delay
Delay(p) ==
  /\ run[p].pc = "delay"
  /\ run' = [run EXCEPT ![p] = NextDialog([@ EXCEPT !.delayed = TRUE], "synced")]
  /\ UNCHANGED <<source, telegram_chats, telegram_messages,
                 telegram_sync_runs, response, oss_configured, env_ALLOWED_CHANNELS, env_CRON_SECRET, request, verdict, faults>>

\* route.ts:392 client.disconnect, awaited inside the try of the run: when
\* it throws, the catch of the run records the error and the state of the
\* connection is not known
Disconnect(p) ==
  /\ run[p].pc = "disconnect"
  /\ \/ /\ Fails(0)
        /\ run' = [run EXCEPT ![p].client = "disconnected", ![p].pc = "close"]
     \/ /\ Fails(1)
        /\ run' = [run EXCEPT ![p] =
             CatchRunError([@ EXCEPT !.client = "unknown"],
                           "disconnect failed")]
  /\ UNCHANGED <<source, telegram_chats, telegram_messages,
                 telegram_sync_runs, response, oss_configured, env_ALLOWED_CHANNELS, env_CRON_SECRET, request, verdict>>

\* route.ts:400-411 the run record is closed
CloseRun(p) ==
  /\ run[p].pc = "close"
  /\ LET r == run[p] IN
     \E applied \in BOOLEAN :
       /\ Fails(IF applied THEN 0 ELSE 1)
       /\ telegram_sync_runs' =
            IF applied
            THEN [telegram_sync_runs EXCEPT ![p] =
                   [status |-> IF r.errorMessage # NULL THEN "failed" ELSE "success",
                    finished |-> TRUE,
                    chats_synced |-> r.chatsSynced,
                    messages_synced |-> r.messagesSynced,
                    error_message |-> r.errorMessage,
                    abandoned |-> telegram_sync_runs[p].abandoned]]
            ELSE telegram_sync_runs
  /\ run' = [run EXCEPT ![p].pc = "respond"]
  /\ UNCHANGED <<source, telegram_chats, telegram_messages, response,
                 oss_configured, env_ALLOWED_CHANNELS, env_CRON_SECRET, request, verdict>>

\* route.ts:415-422 the JSON summary
Respond(p) ==
  /\ run[p].pc = "respond"
  /\ LET r == run[p] IN
     response' = [response EXCEPT ![p] =
       [status |-> 200,
        keys |-> {"success", "chatsSynced", "messagesSynced", "duration",
                  "ossEnabled", "error"},
        success |-> (r.errorMessage = NULL),
        chatsSynced |-> r.chatsSynced, messagesSynced |-> r.messagesSynced,
        error |-> r.errorMessage]]
  /\ run' = [run EXCEPT ![p] = IdleLocals]
  /\ UNCHANGED <<source, telegram_chats, telegram_messages,
                 telegram_sync_runs, oss_configured, env_ALLOWED_CHANNELS, env_CRON_SECRET, request, verdict, faults>>

\* route.ts:14 maxDuration: the platform ends an invocation that is still
\* running at the deadline, wherever it is
Kill(p) ==
  /\ run[p].pc # "idle"
  /\ Fails(1)
  /\ run' = [run EXCEPT ![p] = IdleLocals]
  /\ UNCHANGED <<source, telegram_chats, telegram_messages,
                 telegram_sync_runs, response, oss_configured, env_ALLOWED_CHANNELS, env_CRON_SECRET, request, verdict>>

\* a new message is posted in chat c; the source assigns the next id
Published == Len(source["c1"]) + Len(source["c2"])

Publish(c) ==
  /\ Published < MaxPublished
  /\ \E m \in PayloadsOf(c) : source' = [source EXCEPT ![c] = Append(@, m)]
  /\ UNCHANGED <<telegram_chats, telegram_messages, telegram_sync_runs,
                 run, response, oss_configured, env_ALLOWED_CHANNELS, env_CRON_SECRET, request, verdict, faults>>

Step(p) ==
  \/ StartRun(p) \/ StartRunFails(p) \/ ReadEnv(p) \/ Connect(p)
  \/ GetDialogs(p) \/ SelectChat(p) \/ InsertChat(p) \/ FetchMessages(p)
  \/ ProcessMessage(p) \/ UpdateChat(p) \/ Delay(p) \/ Disconnect(p)
  \/ CloseRun(p) \/ Respond(p) \/ Kill(p)

Next == Step(1) \/ (\E c \in Chats : Publish(c))

Spec == Init /\ [][Next]_vars

\* ------------------------------------------- the window, for every record
\* a history of MaxPublished messages with text
FullHistory ==
  [k \in 1..MaxPublished |->
     [message |-> "hi", media |-> NULL, mimeType |-> <<>>]]

\* invocation 1 is about to request the messages of chat c1, in either
\* mode, for every pair of cursors the chat record can hold (the pairs the
\* handler itself leaves behind, and those of records written by other
\* versions of the handler or by hand)
WindowInit ==
  /\ \E full \in BOOLEAN, oldest \in 0..MaxCursor, last \in 0..MaxCursor :
       LET record == [NewChat EXCEPT !.last_message_id = last,
                                     !.oldest_message_id = oldest]
       IN /\ telegram_chats = [c \in Chats |->
                                 IF c = "c1" THEN record ELSE NoChat]
          /\ run = [p \in Procs |->
                      IF p = 1
                      THEN [IdleLocals EXCEPT
                              !.pc = "fetch", !.forceFullSync = full,
                              !.credentials = "present",
                              !.client = "connected",
                              !.targetDialogs = <<"c1">>, !.idx = 1,
                              !.chatRecord = record]
                      ELSE IdleLocals]
  /\ source \in { [c \in Chats |-> IF c = "c1" THEN h ELSE <<>>] :
                    h \in {<<>>, FullHistory} }
  /\ telegram_messages = EmptyBag
  /\ telegram_sync_runs = [p \in Procs |-> IF p = 1 THEN RunningRun ELSE NoRun]
  /\ response = [p \in Procs |-> NoResponse]
  /\ oss_configured = FALSE
  /\ env_ALLOWED_CHANNELS = [set |-> FALSE, value |-> <<>>]
  /\ env_CRON_SECRET = [set |-> TRUE, value |-> "s1"]
  /\ request = NoRequest
  /\ verdict = NoVerdict
  /\ faults = 0

WindowNext == FetchMessages(1)

WindowSpec == WindowInit /\ [][WindowNext]_vars

\* route.ts:122-389 a step of the chat loop of invocation p
ChatStep(p) ==
  \/ SelectChat(p) \/ InsertChat(p) \/ FetchMessages(p)
  \/ ProcessMessage(p) \/ UpdateChat(p) \/ Delay(p)

\* ------------------------------------------------- runs without failures
\* Non-overlapping incremental runs in which no collaborator fails (the
\* budget of failures is used up from the start), while up to MaxArrivals
\* messages with text arrive in the chat c2 at any moment: more than
\* MAX_MESSAGES_PER_CHAT of them can arrive between two runs.
CapInit ==
  /\ source = [c \in Chats |-> <<>>]
  /\ telegram_chats = [c \in Chats |-> NoChat]
  /\ telegram_messages = EmptyBag
  /\ telegram_sync_runs = [p \in Procs |-> NoRun]
  /\ run = [p \in Procs |-> IdleLocals]
  /\ response = [p \in Procs |-> NoResponse]
  /\ oss_configured = FALSE
  /\ env_ALLOWED_CHANNELS = [set |-> FALSE, value |-> <<>>]
  /\ env_CRON_SECRET = [set |-> TRUE, value |-> "s1"]
  /\ request = NoRequest
  /\ verdict = NoVerdict
  /\ faults = MaxFaults

\* a message is posted in chat c
Arrive(c) ==
  /\ Len(source[c]) < MaxArrivals
  /\ \E m \in PayloadsOf(c) : source' = [source EXCEPT ![c] = Append(@, m)]
  /\ UNCHANGED <<telegram_chats, telegram_messages, telegram_sync_runs,
                 run, response, oss_configured, env_ALLOWED_CHANNELS,
                 env_CRON_SECRET, request, verdict, faults>>

\* route.ts:27 the request has no full=true
StartIncremental(p) == StartRun(p) /\ ~run'[p].forceFullSync

CapNext ==
  \/ StartIncremental(1) \/ ReadEnv(1) \/ Connect(1) \/ GetDialogs(1)
  \/ ChatStep(1) \/ Disconnect(1) \/ CloseRun(1) \/ Respond(1)
  \/ Arrive("c2")

CapSpec == CapInit /\ [][CapNext]_vars

\* ------------------------------------------------- the trigger, repeated
\* Runs in which no collaborator fails, one after the other.  Invocation 2
\* first runs any number of times, in either mode, while messages are
\* posted: this leaves the tables in the states a deployment can be in.
\* Then invocation 1 runs once, incremental, and after its response
\* invocation 2 runs again, incremental.  From the start of the run of
\* invocation 1 on, nothing is posted, and every run gets the same dialogs.
RepeatInit ==
  /\ source = [c \in Chats |-> <<>>]
  /\ telegram_chats = [c \in Chats |-> NoChat]
  /\ telegram_messages = EmptyBag
  /\ telegram_sync_runs = [p \in Procs |-> NoRun]
  /\ run = [p \in Procs |-> IdleLocals]
  /\ response = [p \in Procs |-> NoResponse]
  /\ oss_configured \in BOOLEAN
  /\ env_ALLOWED_CHANNELS = [set |-> FALSE, value |-> <<>>]
  /\ env_CRON_SECRET = [set |-> TRUE, value |-> "s1"]
  /\ request = NoRequest
  /\ verdict = NoVerdict
  /\ faults = MaxFaults

\* the dialogs of the account in these runs
RepeatDialogs == <<"c1", "u1", "c2", "x1">>

\* the run of invocation 1 has not started
BeforeFirst == telegram_sync_runs[1] = NoRun

\* the run of invocation 1 has sent its response
AfterFirst == response[1].status = 200

\* route.ts:98 getDialogs returns the dialogs of the account
ListDialogs(p) == GetDialogs(p) /\ run'[p].dialogs = RepeatDialogs

\* the steps of a run after its start
RunStep(p) ==
  \/ ReadEnv(p) \/ Connect(p) \/ ListDialogs(p) \/ ChatStep(p)
  \/ Disconnect(p) \/ CloseRun(p) \/ Respond(p)

\* a run of invocation 2 before the run of invocation 1, in either mode
StartEarlier == BeforeFirst /\ StartRun(2)

\* the run of invocation 1: once, incremental, when no other run is going on
StartFirst == BeforeFirst /\ run[2].pc = "idle" /\ StartIncremental(1)

\* the next trigger after the response of invocation 1
StartSecond == AfterFirst /\ StartIncremental(2)

\* messages are posted until the run of invocation 1 starts
PostEarlier(c) == BeforeFirst /\ Publish(c)

RepeatNext ==
  \/ StartEarlier \/ StartFirst \/ StartSecond
  \/ RunStep(1) \/ RunStep(2)
  \/ (\E c \in Chats : PostEarlier(c))

RepeatSpec == RepeatInit /\ [][RepeatNext]_vars

\* ------------------------------------------------------ overlapping runs
\* Two invocations triggered close together, each in either mode, both about
\* to process the chat c2, while messages arrive in it; the steps of their
\* chat loops interleave in every order.
OverlapInit ==
  /\ \E full \in [Procs -> BOOLEAN] :
       run = [p \in Procs |->
                [IdleLocals EXCEPT !.pc = "select",
                                   !.forceFullSync = full[p],
                                   !.credentials = "present",
                                   !.client = "connected",
                                   !.dialogs = <<"c2">>,
                                   !.targetDialogs = <<"c2">>, !.idx = 1]]
  /\ source = [c \in Chats |-> <<>>]
  /\ telegram_chats = [c \in Chats |-> NoChat]
  /\ telegram_messages = EmptyBag
  /\ telegram_sync_runs = [p \in Procs |-> RunningRun]
  /\ response = [p \in Procs |-> NoResponse]
  /\ oss_configured = FALSE
  /\ env_ALLOWED_CHANNELS = [set |-> FALSE, value |-> <<>>]
  /\ env_CRON_SECRET = [set |-> TRUE, value |-> "s1"]
  /\ request = NoRequest
  /\ verdict = NoVerdict
  /\ faults = 0

OverlapNext == (\E p \in Procs : ChatStep(p)) \/ Publish("c2")

OverlapSpec == OverlapInit /\ [][OverlapNext]_vars

\* ------------------------------------------------------ the message loop
\* The loop of route.ts:234-354 on every batch of at most MaxBatch messages
\* of every kind of payload, with and without the media pipeline: invocation
\* 1 has fetched the batch for the never-synced chat c1.
Batches == UNION { [1..n -> RichPayloads] : n \in 1..MaxBatch }

\* the answer of getMessages for a history: newest first, id = position
AsMessages(history) ==
  [j \in 1..Len(history) |->
     LET id == Len(history) - j + 1
     IN [id |-> id, message |-> history[id].message,
         media |-> history[id].media, mimeType |-> history[id].mimeType]]

MessageInit ==
  /\ \E history \in Batches, oss \in BOOLEAN :
       /\ oss_configured = oss
       /\ source = [c \in Chats |-> IF c = "c1" THEN history ELSE <<>>]
       /\ run = [p \in Procs |->
                   IF p = 1
                   THEN [IdleLocals EXCEPT
                           !.pc = "loop", !.ossEnabled = oss,
                           !.credentials = "present",
                           !.client = "connected",
                           !.dialogs = <<"c1">>,
                           !.targetDialogs = <<"c1">>, !.idx = 1,
                           !.chatRecord = NewChat,
                           !.messages = AsMessages(history), !.i = 1,
                           !.minMsgId = MAX_SAFE_INTEGER]
                   ELSE IdleLocals]
  /\ telegram_chats = [c \in Chats |-> IF c = "c1" THEN NewChat ELSE NoChat]
  /\ telegram_messages = EmptyBag
  /\ telegram_sync_runs = [p \in Procs |-> IF p = 1 THEN RunningRun ELSE NoRun]
  /\ response = [p \in Procs |-> NoResponse]
  /\ env_ALLOWED_CHANNELS = [set |-> FALSE, value |-> <<>>]
  /\ env_CRON_SECRET = [set |-> TRUE, value |-> "s1"]
  /\ request = NoRequest
  /\ verdict = NoVerdict
  /\ faults = 0

MessageNext == ProcessMessage(1)

MessageSpec == MessageInit /\ [][MessageNext]_vars

\* ----------------------------------------------------------- the re-fetch
\* The loop on a batch that an earlier run has already stored, with the media
\* pipeline working then (the earlier run was killed or its cursor update
\* failed, so the cursors of the chat are still 0 and the same batch is
\* fetched again), with and without the media pipeline now.
StoredBefore(messages) ==
  SetToBag({ Normalize("c1", messages[j], "name",
                       IF WantsUpload(TRUE, messages[j]) THEN "url" ELSE NULL) :
               j \in { k \in 1..Len(messages) : ~IsSkipped(messages[k]) } })

EnrichInit ==
  /\ \E history \in Batches, oss \in BOOLEAN :
       /\ oss_configured = oss
       /\ source = [c \in Chats |-> IF c = "c1" THEN history ELSE <<>>]
       /\ telegram_messages = StoredBefore(AsMessages(history))
       /\ run = [p \in Procs |->
                   IF p = 1
                   THEN [IdleLocals EXCEPT
                           !.pc = "loop", !.ossEnabled = oss,
                           !.credentials = "present",
                           !.client = "connected",
                           !.dialogs = <<"c1">>,
                           !.targetDialogs = <<"c1">>, !.idx = 1,
                           !.chatRecord = NewChat,
                           !.messages = AsMessages(history), !.i = 1,
                           !.minMsgId = MAX_SAFE_INTEGER,
                           !.rowsBefore =
                             RowCount(StoredBefore(AsMessages(history)), "c1")]
                   ELSE IdleLocals]
  /\ telegram_chats = [c \in Chats |-> IF c = "c1" THEN NewChat ELSE NoChat]
  /\ telegram_sync_runs = [p \in Procs |-> IF p = 1 THEN RunningRun ELSE NoRun]
  /\ response = [p \in Procs |-> NoResponse]
  /\ env_ALLOWED_CHANNELS = [set |-> FALSE, value |-> <<>>]
  /\ env_CRON_SECRET = [set |-> TRUE, value |-> "s1"]
  /\ request = NoRequest
  /\ verdict = NoVerdict
  /\ faults = 0

EnrichNext == ProcessMessage(1)

EnrichSpec == EnrichInit /\ [][EnrichNext]_vars

\* ------------------------------------------------------- the middleware
\* A path is the sequence of its segments, a header value a sequence of
\* tokens (the empty sequence is the header that is absent, which the code
\* reads as '' for host and compares unequal for the others).  origin is who
\* sent the request, which the middleware cannot read.
Requests ==
  [pathname : { <<"api", "cron", "telegram-sync">>, <<"api", "cron">>,
                <<"admin">>, <<"admin", "login">> },
   authorization : { <<>>, <<"Bearer", "s1">>, <<"Bearer", "s2">>,
                     <<"Bearer", "">> },
   host : { <<"example.com">>, <<"localhost", ":3000">>,
            <<"localhost", ".example.com">>, <<"127.0.0.1">> },
   x_vercel_cron : { NULL, "1", "0" },
   admin_token : BOOLEAN,
   origin : { "scheduler", "local", "external" }]

\* the values of CRON_SECRET: unset, empty, a secret
Secrets ==
  { [set |-> FALSE, value |-> ""], [set |-> TRUE, value |-> ""],
    [set |-> TRUE, value |-> "s1"] }

\* truthiness of process.env.CRON_SECRET
cronSecret == env_CRON_SECRET.set /\ env_CRON_SECRET.value # ""

\* the template `Bearer ${cronSecret}`
Bearer(secret) == <<"Bearer", secret>>

\* schema.sql:144-177 the middleware without the x-vercel-cron header
middleware_old(req) ==
  IF /\ StartsWith(req.pathname, <<"admin">>)
     /\ req.pathname # <<"admin", "login">>
     /\ ~req.admin_token
  THEN "redirect"
  ELSE IF /\ StartsWith(req.pathname, <<"api", "cron">>)
          /\ cronSecret
          /\ req.authorization # Bearer(env_CRON_SECRET.value)
          /\ ~Includes(req.host, <<"localhost">>)
  THEN "401"
  ELSE "next"

\* schema.sql:187-234 the middleware
middleware(req) ==
  LET isLocalhost == \/ Includes(req.host, <<"localhost">>)
                     \/ Includes(req.host, <<"127.0.0.1">>)
      isVercelCron == req.x_vercel_cron = "1"
  IN
  IF StartsWith(req.pathname, <<"admin">>) /\ ~isLocalhost THEN "403"
  ELSE IF /\ StartsWith(req.pathname, <<"admin">>)
          /\ req.pathname # <<"admin", "login">>
          /\ ~req.admin_token
  THEN "redirect"
  ELSE IF StartsWith(req.pathname, <<"api", "cron">>)
  THEN IF isVercelCron \/ isLocalhost THEN "next"
       ELSE IF cronSecret /\ req.authorization # Bearer(env_CRON_SECRET.value)
       THEN "401"
       ELSE "next"
  ELSE "next"

\* the middleware answers the request
Middleware ==
  /\ verdict = NoVerdict
  /\ verdict' = [old |-> middleware_old(request), new |-> middleware(request)]
  /\ UNCHANGED <<source, telegram_chats, telegram_messages,
                 telegram_sync_runs, run, response, oss_configured,
                 env_ALLOWED_CHANNELS, env_CRON_SECRET, request, faults>>

MiddlewareInit ==
  /\ request \in Requests
  /\ env_CRON_SECRET \in Secrets
  /\ verdict = NoVerdict
  /\ source = [c \in Chats |-> <<>>]
  /\ telegram_chats = [c \in Chats |-> NoChat]
  /\ telegram_messages = EmptyBag
  /\ telegram_sync_runs = [p \in Procs |-> NoRun]
  /\ run = [p \in Procs |-> IdleLocals]
  /\ response = [p \in Procs |-> NoResponse]
  /\ oss_configured = FALSE
  /\ env_ALLOWED_CHANNELS = [set |-> FALSE, value |-> <<>>]
  /\ faults = 0

MiddlewareNext == Middleware

MiddlewareSpec == MiddlewareInit /\ [][MiddlewareNext]_vars

\* --------------------------------------------------- the chat discovery
\* The filter of route.ts:101-118 for every value of ALLOWED_CHANNELS of at
\* most MaxAllowLen characters, and for the variable being unset: a run that
\* has connected and lists the dialogs.
EnvValues ==
  { [set |-> FALSE, value |-> <<>>] }
    \cup { [set |-> TRUE, value |-> v] : v \in Strings(MaxAllowLen) }

DiscoveryInit ==
  /\ env_ALLOWED_CHANNELS \in EnvValues
  /\ env_CRON_SECRET = [set |-> TRUE, value |-> "s1"]
  /\ request = NoRequest
  /\ verdict = NoVerdict
  /\ run = [p \in Procs |->
              IF p = 1
              THEN [IdleLocals EXCEPT !.pc = "dialogs",
                                      !.credentials = "present",
                                      !.client = "connected"]
              ELSE IdleLocals]
  /\ source = [c \in Chats |-> <<>>]
  /\ telegram_chats = [c \in Chats |-> NoChat]
  /\ telegram_messages = EmptyBag
  /\ telegram_sync_runs = [p \in Procs |-> IF p = 1 THEN RunningRun ELSE NoRun]
  /\ response = [p \in Procs |-> NoResponse]
  /\ oss_configured = FALSE
  /\ faults = 0

DiscoveryNext == GetDialogs(1)

DiscoverySpec == DiscoveryInit /\ [][DiscoveryNext]_vars

\* ------------------------------------------------------------- the claims
\* the stored row of the chat the loop of invocation p is at
Stored(p) == telegram_chats[ChatId(run[p])]

\* the ids of the fetched messages of p that are not skipped
KeptIds(p) ==
  { run[p].messages[j].id : j \in { k \in 1..Len(run[p].messages) :
                                     ~IsSkipped(run[p].messages[k]) } }

\* the ids of all fetched messages of p
FetchedIds(p) == { run[p].messages[j].id : j \in 1..Len(run[p].messages) }

\* C1: the stored last_message_id of a chat never decreases: every step of
\* every run (incremental or full-backfill, with failed fetches, failed
\* message writes, failed cursor writes and kills) leaves in each chat a
\* last_message_id that is at least the one stored before the step.
C1_LastMessageIdNeverDecreases ==
  [][\A c \in Chats : telegram_chats'[c].last_message_id
                        >= telegram_chats[c].last_message_id]_vars

\* a cursor write has raised a last_message_id that was already set
C1_Witness ==
  \E p \in Procs :
    /\ run[p].pc = "delay"
    /\ run[p].lastMessageId > 0
    /\ Stored(p).last_message_id > run[p].lastMessageId

\* C2: once the oldest_message_id of a chat is set (O > 0), no step of any
\* run raises it or resets it to 0: it stays non-zero and at most O.
C2_OldestMessageIdNeverIncreases ==
  [][\A c \in Chats :
       telegram_chats[c].oldest_message_id > 0 =>
         /\ telegram_chats'[c].oldest_message_id
              <= telegram_chats[c].oldest_message_id
         /\ telegram_chats'[c].oldest_message_id > 0]_vars

\* a full-backfill run has lowered an oldest_message_id that was set
C2_Witness ==
  \E p \in Procs :
    /\ run[p].pc = "delay"
    /\ run[p].forceFullSync
    /\ run[p].oldestMessageId > 0
    /\ Stored(p).oldest_message_id > 0
    /\ Stored(p).oldest_message_id < run[p].oldestMessageId

\* C3: whenever oldest_message_id and last_message_id of a chat are both
\* non-zero, oldest_message_id <= last_message_id.
C3_OldestAtMostLast ==
  \A c \in Chats :
    (telegram_chats[c].oldest_message_id # 0
       /\ telegram_chats[c].last_message_id # 0)
    => telegram_chats[c].oldest_message_id <= telegram_chats[c].last_message_id

\* a chat whose two cursors are set and differ
C3_Witness ==
  \E c \in Chats :
    /\ telegram_chats[c].oldest_message_id > 0
    /\ telegram_chats[c].oldest_message_id < telegram_chats[c].last_message_id

\* the cursor update of the chat p is at was applied by this invocation
UpdateApplied(p) == Stored(p).last_synced_at = "current"

\* C4 as stated, for a run without any error (the fetch answers and the
\* cursor update is applied): after an incremental run the new
\* last_message_id is >= L and equals the maximum id over ALL messages of
\* the fetched batch, whatever their content, when that maximum exceeds L.
C4_Original ==
  \A p \in Procs :
    (run[p].pc = "delay" /\ ~run[p].forceFullSync /\ UpdateApplied(p)) =>
      LET L == run[p].lastMessageId
          m == Max(FetchedIds(p))
      IN /\ Stored(p).last_message_id >= L
         /\ (m > L => Stored(p).last_message_id = m)

\* C4 amended: after an incremental run without fetch error the new
\* last_message_id is >= L, and when the cursor update succeeds it equals
\* the maximum id over the fetched messages that have text or media
\* whenever that maximum exceeds L.
C4_LastIsMaxOfKept ==
  \A p \in Procs :
    (run[p].pc = "delay" /\ ~run[p].forceFullSync) =>
      LET L == run[p].lastMessageId
      IN /\ Stored(p).last_message_id >= L
         /\ (UpdateApplied(p) /\ KeptIds(p) # {} /\ Max(KeptIds(p)) > L
               => Stored(p).last_message_id = Max(KeptIds(p)))

\* an incremental run advanced the cursor to the newest kept message while
\* the newest message of the batch had neither text nor media
C4_Witness ==
  \E p \in Procs :
    /\ run[p].pc = "delay" /\ ~run[p].forceFullSync
    /\ UpdateApplied(p)
    /\ KeptIds(p) # {}
    /\ Max(KeptIds(p)) > run[p].lastMessageId
    /\ Stored(p).last_message_id = Max(KeptIds(p))
    /\ Max(FetchedIds(p)) > Max(KeptIds(p))

\* the case of C5: the cursor update of an incremental run on a never-synced
\* chat whose k fetched messages all have text and were all written
C5_Case(p) ==
  /\ run[p].pc = "update"
  /\ run'[p].pc = "delay"
  /\ ~run[p].forceFullSync
  /\ run[p].lastMessageId = 0
  /\ \A j \in 1..Len(run[p].messages) : run[p].messages[j].message # ""
  /\ run[p].savedCount = Len(run[p].messages)

C5_Result(p) ==
  LET k == Len(run[p].messages)
      c == ChatId(run[p])
  IN /\ RowCount(telegram_messages', c) = k
     /\ telegram_chats'[c].last_message_id = Max(FetchedIds(p))
     /\ run'[p].chatsSynced = run[p].chatsSynced + 1
     /\ run'[p].messagesSynced = run[p].messagesSynced + k

C6_NoEmptyRow ==
  \A r \in BagToSet(telegram_messages) : ~(r.text = "" /\ ~r.has_media)

\* a batch held a message with neither text nor media, the loop went past
\* it, and a message of the same batch was stored
C6_Witness ==
  \E p \in Procs :
    /\ run[p].pc \in {"loop", "update"}
    /\ \E j \in 1..(run[p].i - 1) : IsSkipped(run[p].messages[j])
    /\ run[p].savedCount > 0

\* at most one row per (chat_id, message_id)
OneRowPerKey ==
  \A r1 \in BagToSet(telegram_messages) :
    /\ CopiesIn(r1, telegram_messages) = 1
    /\ \A r2 \in BagToSet(telegram_messages) : SameKey(r1, r2) => r1 = r2

\* a successful write of the message loop leaves exactly one row with the
\* key of the message, and leaves the table as it was when the row it wrote
\* was stored already
StoreStepIdempotent ==
  \A p \in Procs :
    (run[p].pc = "loop" /\ run'[p].savedCount = run[p].savedCount + 1) =>
      LET c == ChatId(run[p])
          msg == run[p].messages[run[p].i]
          same == { r \in BagToSet(telegram_messages') :
                      r.chat_id = c /\ r.message_id = msg.id }
      IN /\ Cardinality(same) = 1
         /\ \A r \in same :
              /\ CopiesIn(r, telegram_messages') = 1
              /\ (r \in BagToSet(telegram_messages)
                    => telegram_messages' = telegram_messages)

\* C7: idempotent storage: there is at most one stored row per
\* (chat_id, message_id) however often a message is fetched, and storing an
\* identical payload a second time leaves the table equal to the result of
\* storing it once.
C7_IdempotentStorage == []OneRowPerKey /\ [][StoreStepIdempotent]_vars

\* every message of a batch was written although each had a row already
C7_Witness ==
  \E p \in Procs :
    /\ run[p].pc = "update"
    /\ run[p].savedCount = Len(run[p].messages)
    /\ run[p].rowsBefore >= run[p].savedCount
    /\ RowCount(telegram_messages, ChatId(run[p])) = run[p].rowsBefore

\* the chat_id of the k-th target dialog of invocation p
ChatAt(p, k) == Entities[run[p].targetDialogs[k]].id

\* the chat loop of a run runs to its end: a run-level error is raised only
\* before the loop starts or by the disconnect after it, and the loop leaves
\* no target dialog out
LoopCompletes ==
  \A p \in Procs :
    /\ run[p].errorMessage # NULL
       => \/ run[p].idx = 0
          \/ /\ run[p].client = "unknown"
             /\ Len(run[p].outcome) = Len(run[p].targetDialogs)
    /\ run[p].pc \in {"disconnect", "close", "respond"}
         /\ run[p].errorMessage = NULL
       => Len(run[p].outcome) = Len(run[p].targetDialogs)

\* a step in which the processing of a chat ends by an error (a throw that
\* is caught, a failed creation of the chat record) keeps what was stored,
\* raises no run-level error and hands the loop to the next dialog
ChatErrorStaysInChat ==
  \A p \in Procs :
    ( /\ run[p].pc \in {"insert", "fetch", "loop"}
      /\ Len(run'[p].outcome) = Len(run[p].outcome) + 1
      /\ run'[p].outcome[Len(run'[p].outcome)] \in {"error", "skipped"} )
    => /\ run'[p].errorMessage = NULL
       /\ run'[p].targetDialogs = run[p].targetDialogs
       /\ run'[p].idx = run[p].idx + 1
       /\ run'[p].pc = IF run[p].idx < Len(run[p].targetDialogs)
                       THEN "select" ELSE "disconnect"
       /\ run'[p].chatsSynced = run[p].chatsSynced
       /\ run'[p].messagesSynced = run[p].messagesSynced
       /\ telegram_messages' = telegram_messages
       /\ telegram_chats' = telegram_chats

\* C8: per-chat isolation: an error raised while chat X is processed (chat
\* record creation, message fetch, message loop) is caught at the chat
\* boundary; the run does not abort and the loop goes on to every later
\* eligible chat Y, whose messages are fetched and stored.
C8_PerChatIsolation == []LoopCompletes /\ [][ChatErrorStaysInChat]_vars

\* the first chat of a run ended by an error and the second chat of the
\* same run had its messages stored and its cursors updated
C8_Witness ==
  \E p \in Procs :
    /\ run[p].pc = "delay"
    /\ run[p].idx = 2
    /\ run[p].outcome[1] = "error"
    /\ run[p].savedCount > 0
    /\ UpdateApplied(p)

\* the iterations of the chat loop of p that ran to their end without a
\* raised error, with or without new messages
Completed(p) ==
  { k \in 1..Len(run[p].outcome) : run[p].outcome[k] \in {"synced", "empty"} }

\* C9: chats_synced at the end of a run is the number of eligible chats
\* whose processing reached completion without a raised error, a chat whose
\* fetch returned zero messages included (stated for the runs in which no
\* operation failed).
C9_ChatsSyncedCountsEmptyChats ==
  \A p \in Procs :
    run[p].pc = "close" /\ faults = 0
    => run[p].chatsSynced = Cardinality(Completed(p))

\* C10: every chat a run visited and fetched successfully has its
\* last_synced_at refreshed by that run, also when the fetch returned zero
\* messages (stated for the runs in which no operation failed).
C10_VisitedChatIsRefreshed ==
  \A p \in Procs :
    \A k \in Completed(p) :
      faults = 0 => telegram_chats[ChatAt(p, k)].last_synced_at = "current"

\* C11: messages_synced at the end of a run is the number of message
\* storage writes of the run that succeeded, summed over all chats, the
\* chats whose processing raised an error after some of their messages had
\* been stored included.
C11_MessagesSyncedCountsEveryWrite ==
  \A p \in Procs :
    run[p].pc = "close" => run[p].messagesSynced = run[p].stored

\* the window of section 4.2 of the specification, row by row
WindowTable(full, oldest, last) ==
  CASE ~full /\ last = 0 ->
         [limit |-> MAX_MESSAGES_PER_CHAT, offsetId |-> 0, minId |-> 0]
    [] ~full /\ last > 0 ->
         [limit |-> MAX_MESSAGES_PER_CHAT, offsetId |-> 0, minId |-> last]
    [] full /\ oldest = 0 /\ last = 0 ->
         [limit |-> MAX_MESSAGES_PER_CHAT, offsetId |-> 0, minId |-> 0]
    [] full /\ oldest = 0 /\ last > 0 ->
         [limit |-> MAX_MESSAGES_PER_CHAT, offsetId |-> last + 1, minId |-> 0]
    [] full /\ oldest > 0 ->
         [limit |-> MAX_MESSAGES_PER_CHAT, offsetId |-> oldest, minId |-> 0]

\* the ids of the history of chat c the table asks for: the most recent N
\* among those above last (incremental), or below last + 1 or below oldest
\* (full-backfill), or among all of them
TableIds(c, full, oldest, last) ==
  LET range == { k \in 1..Len(source[c]) :
                   IF ~full THEN k > last
                   ELSE IF oldest > 0 THEN k < oldest
                   ELSE IF last > 0 THEN k < last + 1
                   ELSE TRUE }
  IN { k \in range :
         Cardinality({ j \in range : j > k }) < MAX_MESSAGES_PER_CHAT }

\* C12: the window requested for a chat is the function of (mode,
\* oldest_message_id, last_message_id) of the table of section 4.2, for
\* every combination, with limit N = MAX_MESSAGES_PER_CHAT; and the messages
\* fetched are those the table describes.
C12_WindowIsTheTable ==
  \A p \in Procs :
    /\ run[p].pc = "fetch"
       => Request(run[p]) = WindowTable(run[p].forceFullSync,
                                        Stored(p).oldest_message_id,
                                        Stored(p).last_message_id)
    /\ run[p].pc = "loop"
       => FetchedIds(p) = TableIds(ChatId(run[p]), run[p].forceFullSync,
                                   Stored(p).oldest_message_id,
                                   Stored(p).last_message_id)

\* a full-backfill fetch for a record that has last_message_id and no
\* oldest_message_id returned the page that ends at last_message_id
C12_Witness ==
  \E p \in Procs :
    /\ run[p].pc = "loop"
    /\ run[p].forceFullSync
    /\ Stored(p).oldest_message_id = 0
    /\ Stored(p).last_message_id = 2
    /\ FetchedIds(p) = {1, 2}

\* invocation p is sending, or has got the answer to, a message-list request
Requesting(p) == run[p].pc \in {"fetch", "loop"}

\* C13 as stated: every message-list request supplies exactly one of minId
\* and offsetId, never both and never neither.
C13_Original ==
  \A p \in Procs :
    Requesting(p)
    => (Request(run[p]).minId # 0) # (Request(run[p]).offsetId # 0)

\* C13: no message-list request supplies both minId and offsetId; a request
\* supplies neither exactly when the chat record gives the mode no cursor
\* to start from (incremental: last_message_id = 0; full-backfill: both
\* cursors 0); every other request supplies exactly one, minId in
\* incremental mode and offsetId in full-backfill mode.
C13_AtMostOneBound ==
  \A p \in Procs :
    Requesting(p)
    => LET w == Request(run[p])
           record == run[p].chatRecord
           unbounded == IF run[p].forceFullSync
                        THEN record.oldest_message_id = 0
                             /\ record.last_message_id = 0
                        ELSE record.last_message_id = 0
       IN /\ ~(w.minId # 0 /\ w.offsetId # 0)
          /\ unbounded => (w.minId = 0 /\ w.offsetId = 0)
          /\ ~unbounded => IF run[p].forceFullSync
                           THEN w.offsetId # 0 /\ w.minId = 0
                           ELSE w.minId # 0 /\ w.offsetId = 0

\* a full-backfill request for a never-synced chat, sent with neither bound,
\* has been answered
C13_Witness ==
  \E p \in Procs :
    /\ run[p].pc = "loop"
    /\ run[p].forceFullSync
    /\ Request(run[p]).minId = 0
    /\ Request(run[p]).offsetId = 0

\* C14: connection lifecycle: every run that established the source
\* connection has disconnected it (its one call of disconnect, whatever it
\* answered, has been made) when the run ends, on every exit path: normal
\* completion, a per-chat error, a fatal error after connecting; and the
\* source is asked (dialogs, messages, sender, media) only while connected.
C14_DisconnectedOnEveryExit ==
  \A p \in Procs :
    /\ run[p].pc \in {"close", "respond"} => run[p].client # "connected"
    /\ run[p].pc \in {"dialogs", "fetch", "loop"}
       => run[p].client = "connected"

\* C15: when the API id, the API hash or the session is missing the run
\* short-circuits: it attempts no connection, processes no chat, writes no
\* message and no cursor, and closes its record with status 'failed', a
\* non-null error_message, chats_synced = 0 and messages_synced = 0 (the
\* write that closes the record being applied).
C15_MissingCredentialsShortCircuit ==
  \A p \in Procs :
    run[p].credentials = "missing"
    => /\ run[p].pc \in {"close", "respond"}
       /\ run[p].errorMessage # NULL
       /\ run[p].client = "none"
       /\ run[p].targetDialogs = <<>>
       /\ run[p].idx = 0
       /\ run[p].outcome = <<>>
       /\ run[p].stored = 0
       /\ ~run[p].touched
       /\ run[p].pc = "respond" /\ telegram_sync_runs[p].finished
          => telegram_sync_runs[p] =
               [status |-> "failed", finished |-> TRUE, chats_synced |-> 0,
                messages_synced |-> 0, error_message |-> run[p].errorMessage,
                abandoned |-> telegram_sync_runs[p].abandoned]

\* a run that found a credential missing has closed its record
C15_Witness ==
  \E p \in Procs :
    /\ run[p].credentials = "missing"
    /\ run[p].pc = "respond"
    /\ telegram_sync_runs[p].status = "failed"

\* C16: whenever a run ends with status 'failed' its chat loop never
\* started: the run fetched no chat, wrote no message and no cursor, and its
\* recorded chats_synced and messages_synced are both 0.
C16_FailedRunProcessedNothing ==
  \A p \in Procs :
    run[p].pc = "respond" /\ telegram_sync_runs[p].status = "failed"
    => /\ run[p].outcome = <<>>
       /\ run[p].stored = 0
       /\ ~run[p].touched
       /\ telegram_sync_runs[p].chats_synced = 0
       /\ telegram_sync_runs[p].messages_synced = 0

\* C17: a run without run-level error (credentials present, connected,
\* conversations listed, disconnected, the write that closes its record
\* applied) ends with status 'success' and a null error_message, also when
\* every chat of its loop raised an error or had failing message writes.
C17_ChatErrorsLeaveRunSuccessful ==
  \A p \in Procs :
    ( /\ run[p].pc = "respond"
      /\ run[p].credentials = "present"
      /\ run[p].client = "disconnected"
      /\ telegram_sync_runs[p].finished )
    => /\ telegram_sync_runs[p].status = "success"
       /\ telegram_sync_runs[p].error_message = NULL
       /\ run[p].errorMessage = NULL

\* a run all of whose chats raised an error has closed its record
C17_Witness ==
  \E p \in Procs :
    /\ run[p].pc = "respond"
    /\ run[p].client = "disconnected"
    /\ run[p].outcome # <<>>
    /\ \A k \in 1..Len(run[p].outcome) : run[p].outcome[k] = "error"
    /\ telegram_sync_runs[p].status = "success"

\* the smallest element of a non-empty set of ids
Least(S) == CHOOSE x \in S : \A y \in S : x <= y

\* invocation p, in full-backfill mode, has fetched for a chat with
\* oldest_message_id > 0 a batch of non-empty messages with ids all below
\* it, and its cursor update has been applied
C18_Case(p) ==
  /\ run[p].pc = "delay"
  /\ run[p].forceFullSync
  /\ run[p].oldestMessageId > 0
  /\ KeptIds(p) = FetchedIds(p)
  /\ \A id \in FetchedIds(p) : id < run[p].oldestMessageId
  /\ UpdateApplied(p)

\* C18: for a chat with oldest_message_id = O > 0, a full-backfill run that
\* fetches a non-empty batch of non-empty messages with ids all below O (and
\* whose cursor update is applied) sets oldest_message_id to the smallest
\* fetched id and leaves last_message_id unchanged.
C18_BackfillLowersOldestOnly ==
  \A p \in Procs :
    C18_Case(p)
    => /\ Stored(p).oldest_message_id = Least(FetchedIds(p))
       /\ Stored(p).last_message_id = run[p].lastMessageId

\* the backward page of a full-backfill run has been stored and the cursor
\* update applied
C18_Witness ==
  \E p \in Procs :
    /\ C18_Case(p)
    /\ run[p].savedCount = Len(run[p].messages)
    /\ Least(FetchedIds(p)) < run[p].oldestMessageId

\* C19 as stated: for every starting cursor state of a chat, a never-synced
\* chat included, no step of a full-backfill run changes last_message_id.
C19_Original ==
  [][\A p \in Procs :
       run[p].forceFullSync /\ run'[p] # run[p]
       => \A c \in Chats : telegram_chats'[c].last_message_id
                           = telegram_chats[c].last_message_id]_vars

\* C19: no step of a full-backfill run changes a last_message_id that is
\* set (> 0); for a never-synced chat the full-backfill run is the first
\* sync, and its applied cursor update sets last_message_id to the largest
\* id of the fetched messages that have text or media.
C19_FullBackfillKeepsSetLast ==
  [][\A p \in Procs :
       run[p].forceFullSync /\ run'[p] # run[p]
       => /\ \A c \in Chats :
               telegram_chats[c].last_message_id > 0
               => telegram_chats'[c].last_message_id
                  = telegram_chats[c].last_message_id
          /\ ( /\ run[p].pc = "update"
               /\ Stored(p).last_message_id = 0
               /\ KeptIds(p) # {}
               /\ telegram_chats'[ChatId(run[p])].last_synced_at = "current" )
             => telegram_chats'[ChatId(run[p])].last_message_id
                = Max(KeptIds(p))]_vars

\* a full-backfill run was the first sync of a chat and set last_message_id
C19_Witness ==
  \E p \in Procs :
    /\ run[p].pc = "delay"
    /\ run[p].forceFullSync
    /\ run[p].lastMessageId = 0
    /\ Stored(p).last_message_id > 0

\* C20: once the oldest_message_id of a chat is established (> 0), no step
\* of an incremental run changes it.
C20_IncrementalKeepsOldest ==
  [][\A p \in Procs :
       ~run[p].forceFullSync /\ run'[p] # run[p]
       => \A c \in Chats :
            telegram_chats[c].oldest_message_id > 0
            => telegram_chats'[c].oldest_message_id
               = telegram_chats[c].oldest_message_id]_vars

\* an incremental run has advanced the last_message_id of a chat whose
\* oldest_message_id was established, and oldest_message_id is what it was
C20_Witness ==
  \E p \in Procs :
    /\ run[p].pc = "delay"
    /\ ~run[p].forceFullSync
    /\ run[p].oldestMessageId > 0
    /\ Stored(p).last_message_id > run[p].lastMessageId
    /\ Stored(p).oldest_message_id = run[p].oldestMessageId

\* the table holds a row for message id of chat c
HasRow(c, id) ==
  \E row \in BagToSet(telegram_messages) :
    row.chat_id = c /\ row.message_id = id

\* C21: a run killed by the deadline at any step leaves cursors from which
\* the next incremental run resumes: at every point of an incremental run
\* the stored last_message_id is below the id of every fetched non-empty
\* message whose write has not been attempted (no message is skipped); and
\* the run that follows a killed run (the kill being the only failure so far)
\* fetches no message that is already stored (nothing is re-processed).
C21_KilledRunIsResumed ==
  \A p \in Procs :
    run[p].pc = "loop" /\ ~run[p].forceFullSync
    => \A j \in run[p].i..Len(run[p].messages) :
         /\ ~IsSkipped(run[p].messages[j])
            => Stored(p).last_message_id < run[p].messages[j].id
         /\ telegram_sync_runs[p].abandoned /\ faults = 1
            => ~HasRow(ChatId(run[p]), run[p].messages[j].id)

\* C22: every response of the trigger endpoint reports chatsSynced and
\* messagesSynced together with a success flag that is true exactly when no
\* run-level error string is present, on every path, the path where the run
\* record cannot be created included.
C22_EveryResponseIsASummary ==
  \A p \in Procs :
    response[p].status # 0
    => /\ {"success", "chatsSynced", "messagesSynced"} \subseteq response[p].keys
       /\ response[p].success = (response[p].error = NULL)

\* the conversation is a group, a supergroup or a channel
IsGroupKind(d) == Entities[d].className \in {"Chat", "Channel"}

\* the title contains the entry, as it is written or without the blanks
\* around it; a blank entry is contained in a title only as it is written
TitleContains(title, entry) ==
  \/ Includes(title, entry)
  \/ Trim(entry) # <<>> /\ Includes(title, Trim(entry))

\* the conversation the discovery is to select
IsAllowedGroup(d) ==
  /\ IsGroupKind(d)
  /\ \E k \in 1..Len(ALLOWED_CHANNELS) :
       TitleContains(Entities[d].title, ALLOWED_CHANNELS[k])

\* C23: chat discovery selects exactly the listed conversations that are
\* groups, supergroups or channels and whose title contains at least one
\* entry of the allow-list, for every value of the allow-list, the empty
\* value and values with blank entries included: a conversation whose title
\* contains no entry is never selected.
C23_SelectsExactlyAllowedGroups ==
  \A p \in Procs :
    run[p].dialogs # <<>>
    => run[p].targetDialogs = SelectSeq(run[p].dialogs, IsAllowedGroup)

\* the dialogs of the run of p whose messages have been requested and
\* answered: those that ended as synced or empty, and the one in progress
FetchedDialogs(p) ==
  { k \in 1..Len(run[p].outcome) : run[p].outcome[k] \in {"synced", "empty"} }
    \cup (IF run[p].pc \in {"loop", "update", "delay"} THEN {run[p].idx} ELSE {})

\* C24: no chat is synced twice in the same run: the dialogs a run fetches
\* messages of have pairwise different chat_id, for every listing the source
\* can return.
C24_NoChatSyncedTwice ==
  \A p \in Procs :
    \A k1, k2 \in FetchedDialogs(p) :
      k1 # k2 => ChatAt(p, k1) # ChatAt(p, k2)

\* the positions of a run inside an iteration of the chat loop
ChatPcs == {"select", "insert", "fetch", "loop", "update", "delay"}

\* the tables a step writes
TablesWritten ==
  (IF telegram_chats' # telegram_chats THEN {"telegram_chats"} ELSE {})
    \cup (IF telegram_messages' # telegram_messages
          THEN {"telegram_messages"} ELSE {})
    \cup (IF telegram_sync_runs' # telegram_sync_runs
          THEN {"telegram_sync_runs"} ELSE {})

\* C25: within one run chats are processed strictly one at a time.  While
\* the run is at its k-th chat every earlier chat has ended (synced, empty,
\* skipped, or its error caught); a chat ends as synced only from the delay
\* that follows its awaited cursor update; and a step of a started run is
\* one request: it writes at most one table.
C25_OneChatAtATime ==
  [][\A p \in Procs :
       /\ run'[p].pc \in ChatPcs
          => /\ Len(run'[p].outcome) = run'[p].idx - 1
             /\ run'[p].idx <= Len(run'[p].targetDialogs)
       /\ Len(run'[p].outcome) = Len(run[p].outcome) + 1
          => \/ run[p].pc = "delay" /\ run'[p].outcome[run[p].idx] = "synced"
             \/ run[p].pc # "delay" /\ run'[p].outcome[run[p].idx] # "synced"
       /\ (run'[p].pc = "delay" /\ run[p].pc # "delay") => run[p].pc = "update"
       /\ (run'[p].pc = "fetch" /\ run[p].pc # "fetch")
          => run[p].pc \in {"select", "insert"}
       /\ run[p].pc # "idle" /\ run'[p] # run[p]
          => Cardinality(TablesWritten) <= 1]_vars

\* the fetch of the second chat of a run is due, after the first chat was
\* synced
C25_Witness ==
  \E p \in Procs :
    /\ run[p].pc = "fetch"
    /\ run[p].idx = 2
    /\ run[p].outcome = <<"synced">>

\* C26: the cursors reflect stored data.  Between runs (no invocation is in
\* progress), after any sequence of non-overlapping runs, failed message
\* writes included, a non-zero last_message_id and a non-zero
\* oldest_message_id of a chat are message ids of rows stored for the chat:
\* a cursor never points at an id whose write failed.
C26_CursorsPointAtStoredRows ==
  (\A p \in Procs : run[p].pc = "idle")
  => \A c \in Chats :
       /\ telegram_chats[c].last_message_id > 0
          => HasRow(c, telegram_chats[c].last_message_id)
       /\ telegram_chats[c].oldest_message_id > 0
          => HasRow(c, telegram_chats[c].oldest_message_id)

\* the request carries the secret that is configured
HasCorrectBearer ==
  cronSecret /\ request.authorization = Bearer(env_CRON_SECRET.value)

\* C27: a request to a path under /api/cron that comes neither from the
\* scheduler (nor from the machine itself) and does not carry the correct
\* bearer secret does not reach the sync handler, whatever the value of
\* CRON_SECRET (unset included) and of the headers the caller chooses:
\* at least one of the two versions of the middleware turns it away.
C27_UnauthenticatedCallersAreRejected ==
  ( /\ StartsWith(request.pathname, <<"api", "cron">>)
    /\ request.origin = "external"
    /\ ~HasCorrectBearer
    /\ verdict # NoVerdict )
  => ~(verdict.old = "next" /\ verdict.new = "next")

\* the message the loop of invocation p is at
CurrentMessage(p) == run[p].messages[run[p].i]

\* a step of invocation p that runs the loop body for a message that is not
\* skipped, without anything thrown to the catch of the chat
MessageStep(p) ==
  /\ run[p].pc = "loop"
  /\ run'[p] # run[p]
  /\ run'[p].pc # "idle"
  /\ ~IsSkipped(CurrentMessage(p))
  /\ "throw" \notin run'[p].failures

\* the step leaves the chat in progress and moves to the next message of
\* the batch, or to the cursor update after the last one
Continues(p) ==
  /\ run'[p].outcome = run[p].outcome
  /\ run'[p].idx = run[p].idx
  /\ run'[p].messages = run[p].messages
  /\ run'[p].i = run[p].i + 1
  /\ run'[p].pc = IF run[p].i < Len(run[p].messages) THEN "loop" ELSE "update"

\* the id of the message is among the cursor candidates after the step
IsCandidate(p) ==
  /\ run'[p].maxMsgId >= CurrentMessage(p).id
  /\ run'[p].minMsgId <= CurrentMessage(p).id

\* the rows of the table after the step that the message of the step maps to
RowsWritten(p) ==
  { row \in BagToSet(telegram_messages') :
      /\ row.chat_id = ChatId(run[p])
      /\ row.message_id = CurrentMessage(p).id }

\* C28: a failed sender lookup does not abort the message: the message is
\* upserted with sender_name null, counted if (and only if) the write
\* succeeds, its id is among the cursor candidates, and the loop goes on
\* with the remaining messages of the batch.
C28_SenderFailureDegrades ==
  [][\A p \in Procs :
       (MessageStep(p) /\ "sender" \in run'[p].failures)
       => /\ Continues(p)
          /\ IsCandidate(p)
          /\ IF "write" \in run'[p].failures
             THEN /\ run'[p].savedCount = run[p].savedCount
                  /\ telegram_messages' = telegram_messages
             ELSE /\ run'[p].savedCount = run[p].savedCount + 1
                  /\ RowsWritten(p) # {}
                  /\ \A row \in RowsWritten(p) : row.sender_name = NULL]_vars

\* the first message of a batch of two was stored without a sender name
\* after its lookup failed, and the second message is due
C28_Witness ==
  \E p \in Procs :
    /\ run[p].pc = "loop"
    /\ run[p].i = 2
    /\ run[p].failures = {"sender"}
    /\ run[p].savedCount = 1
    /\ \E row \in BagToSet(telegram_messages) :
         /\ row.message_id = run[p].messages[1].id
         /\ row.sender_name = NULL

\* the media of the message is an image: a photo, or a document whose MIME
\* type is image/...
IsImage(msg) ==
  \/ msg.media = "MessageMediaPhoto"
  \/ msg.media = "MessageMediaDocument" /\ msg.mimeType[1] = "image"

\* C29: media handling never aborts a message or a chat.  The pipeline is
\* tried only for an image and only when it is configured; when the
\* download throws, answers no buffer, or the upload fails, the loop goes on
\* and the message is upserted with has_media true and media_url null; the
\* upload never hands back anything but a URL or null.
C29_MediaFailureDegrades ==
  [][\A p \in Procs :
       MessageStep(p)
       => /\ run'[p].mediaResult # "none"
             => IsImage(CurrentMessage(p)) /\ run[p].ossEnabled
          /\ "media" \in run'[p].failures
             => /\ Continues(p)
                /\ IsCandidate(p)
                /\ "write" \notin run'[p].failures
                   => /\ RowsWritten(p) # {}
                      /\ \A row \in RowsWritten(p) :
                           row.has_media /\ row.media_url = NULL
          /\ \A row \in RowsWritten(p) :
               /\ row.media_url \in {NULL, "url"}
               /\ row.media_url = "url" => run'[p].mediaResult = "ok"]_vars

\* a message with an image was stored without a URL after its download or
\* upload failed, and the loop went on
C29_Witness ==
  \E p \in Procs :
    /\ run[p].pc \in {"loop", "update"}
    /\ run[p].failures = {"media"}
    /\ run[p].mediaResult \in {"download throws", "not a buffer", "upload fails"}
    /\ \E row \in BagToSet(telegram_messages) :
         /\ row.message_id = run[p].messages[run[p].i - 1].id
         /\ row.has_media
         /\ row.media_type = "MessageMediaDocument"
         /\ row.media_url = NULL

\* C30: a message is counted as synced only if its write succeeds.  A
\* failed write is not counted, leaves the table as it was, raises nothing
\* (the chat stays in progress) and the loop goes on to the later messages
\* of the batch; a successful write is counted once and its row is stored.
C30_OnlyStoredMessagesAreCounted ==
  [][\A p \in Procs :
       MessageStep(p)
       => IF "write" \in run'[p].failures
          THEN /\ run'[p].savedCount = run[p].savedCount
               /\ telegram_messages' = telegram_messages
               /\ Continues(p)
          ELSE /\ run'[p].savedCount = run[p].savedCount + 1
               /\ RowsWritten(p) # {}
               /\ Continues(p)]_vars

\* the write of the first message of a batch of two failed, and the second
\* message was written and counted
C30_Witness ==
  \E p \in Procs :
    /\ run[p].pc = "update"
    /\ Len(run[p].messages) = 2
    /\ faults = 1
    /\ run[p].failures = {}
    /\ run[p].savedCount = 1
    /\ ~HasRow(ChatId(run[p]), run[p].messages[1].id)
    /\ HasRow(ChatId(run[p]), run[p].messages[2].id)

\* a step of invocation p in which the loop body throws to the catch of the
\* chat
AbortStep(p) ==
  /\ run[p].pc = "loop"
  /\ run'[p] # run[p]
  /\ run'[p].pc # "idle"
  /\ "throw" \in run'[p].failures

\* C31: when the processing of a chat raises an error after some messages of
\* its batch were stored, the rows stay stored (the step that catches the
\* error writes no table), the cursors of the chat are still the ones the
\* iteration read at its start, the error is not made the error of the run,
\* and the run goes on with the next chat (or, after the last chat, to the
\* disconnect).
C31_ChatErrorKeepsPartialProgress ==
  [][\A p \in Procs :
       AbortStep(p)
       => /\ telegram_messages' = telegram_messages
          /\ telegram_chats' = telegram_chats
          /\ Stored(p).last_message_id = run[p].lastMessageId
          /\ Stored(p).oldest_message_id = run[p].oldestMessageId
          /\ run'[p].stored = run[p].stored
          /\ run'[p].errorMessage = run[p].errorMessage
          /\ run'[p].outcome = Append(run[p].outcome, "error")
          /\ run'[p].idx = run[p].idx + 1
          /\ run'[p].pc = IF run[p].idx < Len(run[p].targetDialogs)
                          THEN "select" ELSE "disconnect"]_vars

\* the first message of a batch of a never-synced chat was stored, the
\* second one raised: the row is there and the cursors of the chat are 0
C31_Witness ==
  \E p \in Procs :
    /\ run[p].pc \in {"select", "disconnect"}
    /\ run[p].outcome # <<>>
    /\ run[p].outcome[Len(run[p].outcome)] = "error"
    /\ run[p].failures = {"throw"}
    /\ run[p].stored = 1
    /\ \E c \in Chats :
         /\ RowCount(telegram_messages, c) = 1
         /\ telegram_chats[c].exists
         /\ telegram_chats[c].last_message_id = 0
         /\ telegram_chats[c].oldest_message_id = 0

\* the message has neither text nor media
IsEmptyMessage(msg) == msg.message = "" /\ msg.media = NULL

\* the batch of invocation p has messages, all of them without text and media
OnlyEmptyMessages(p) ==
  /\ run[p].messages # <<>>
  /\ \A j \in 1..Len(run[p].messages) : IsEmptyMessage(run[p].messages[j])

\* C32: a fetched message with neither text nor media has no cursor effect.
\* The step of the loop that meets it leaves the cursor candidates and the
\* tables as they are, and the cursor update that follows a batch of only
\* such messages leaves last_message_id and oldest_message_id of every chat
\* unchanged.
C32_EmptyMessageHasNoCursorEffect ==
  [][\A p \in Procs :
       /\ ( /\ run[p].pc = "loop"
            /\ run'[p] # run[p]
            /\ run'[p].pc # "idle"
            /\ IsEmptyMessage(CurrentMessage(p)) )
          => /\ run'[p].maxMsgId = run[p].maxMsgId
             /\ run'[p].minMsgId = run[p].minMsgId
             /\ run'[p].savedCount = run[p].savedCount
             /\ telegram_messages' = telegram_messages
             /\ telegram_chats' = telegram_chats
             /\ Continues(p)
       /\ ( /\ run[p].pc = "update"
            /\ run'[p].pc = "delay"
            /\ OnlyEmptyMessages(p) )
          => \A c \in Chats :
               /\ telegram_chats'[c].last_message_id
                    = telegram_chats[c].last_message_id
               /\ telegram_chats'[c].oldest_message_id
                    = telegram_chats[c].oldest_message_id]_vars

\* the cursor update of a batch of only empty messages was applied to a
\* never-synced chat: its cursors are still 0
C32_Witness ==
  \E p \in Procs :
    /\ run[p].pc = "delay"
    /\ OnlyEmptyMessages(p)
    /\ UpdateApplied(p)
    /\ Stored(p).last_message_id = 0
    /\ Stored(p).oldest_message_id = 0

\* C33: between the message fetch of one eligible chat and the message fetch
\* of the next one a delay step occurs, whatever the outcome of the first
\* chat: when a run is about to request the messages of a chat after it has
\* requested those of an earlier chat, the delay has run in between (stated
\* for the runs in which nothing fails).
C33_DelayBetweenFetches ==
  \A p \in Procs :
    ( /\ run[p].pc = "fetch"
      /\ faults = 0
      /\ \E k \in 1..(run[p].idx - 1) : run[p].outcome[k] \in {"synced", "empty"} )
    => run[p].delayed

\* C34: every run whose record was created with status 'running' and that
\* is not killed closes the record with status 'success' or 'failed', with an
\* error_message exactly when the status is 'failed': when the run is about
\* to answer the request, its record is closed.
C34_RunRecordIsClosed ==
  \A p \in Procs :
    run[p].pc = "respond"
    => /\ telegram_sync_runs[p].status \in {"success", "failed"}
       /\ telegram_sync_runs[p].finished
       /\ (telegram_sync_runs[p].error_message # NULL)
            <=> (telegram_sync_runs[p].status = "failed")

\* C35: when two runs process the same chat concurrently, with their steps
\* interleaved in any order and messages arriving in between, the stored
\* last_message_id never decreases and the stored oldest_message_id, once
\* set, never increases.
C35_CursorsAreRatchetsUnderOverlap ==
  [][\A c \in Chats :
       /\ telegram_chats'[c].last_message_id
            >= telegram_chats[c].last_message_id
       /\ telegram_chats[c].oldest_message_id > 0
          => telegram_chats'[c].oldest_message_id
               <= telegram_chats[c].oldest_message_id]_vars

\* C36: no loss under the fetch cap.  Between error-free incremental runs,
\* every source message of a chat that has text or media, whose id is above
\* the first synced id (oldest_message_id, which incremental runs set at the
\* first sync and never move) and at most the stored last_message_id, has a
\* row in telegram_messages, also when more than MAX_MESSAGES_PER_CHAT
\* messages arrived between two runs.
C36_NoLossUnderTheCap ==
  (\A p \in Procs : run[p].pc = "idle")
  => \A c \in Chats :
       \A id \in 1..Len(source[c]) :
         ( /\ id > telegram_chats[c].oldest_message_id
           /\ id <= telegram_chats[c].last_message_id
           /\ ~IsEmptyMessage(source[c][id]) )
         => HasRow(c, id)

\* C37: enrichment never loses information: once a stored row has a
\* non-null media_url, no later upsert of the same (chat_id, message_id)
\* leaves the row with a null media_url, also when the media pipeline fails
\* or is not configured at the re-fetch.
C37_MediaUrlIsNeverLost ==
  [][\A row \in BagToSet(telegram_messages) :
       row.media_url # NULL
       => \A later \in BagToSet(telegram_messages') :
            SameKey(later, row) => later.media_url # NULL]_vars

\* C38: backfill makes progress.  A full-backfill run without failures that
\* walks backward from a set oldest_message_id and receives messages (it
\* reaches the delay after its cursor update) leaves an oldest_message_id
\* below the one it started from, so that the next full-backfill run asks
\* for an older window, also when the window had only messages without text
\* and media.
C38_BackfillMovesTheWindow ==
  \A p \in Procs :
    ( /\ run[p].pc = "delay"
      /\ run[p].forceFullSync
      /\ run[p].oldestMessageId > 0
      /\ faults = 0 )
    => Stored(p).oldest_message_id < run[p].oldestMessageId

\* both cursors of every chat record
Cursors ==
  [c \in Chats |-> <<telegram_chats[c].last_message_id,
                     telegram_chats[c].oldest_message_id>>]

\* C39: the incremental trigger is idempotent.  After an incremental run
\* without failures has sent its response, with nothing posted since it
\* started, no step of the next incremental run without failures changes
\* the rows of telegram_messages or a cursor of a chat, and the run reports
\* messagesSynced = 0.
C39_SecondRunChangesNothing ==
  [][ AfterFirst =>
        /\ telegram_messages' = telegram_messages
        /\ Cursors' = Cursors
        /\ response'[2].status = 200 => response'[2].messagesSynced = 0
    ]_vars

\* the second run has sent its response, after a first run that had found
\* rows to store and had moved the cursors of the two chats
C39_Witness ==
  /\ AfterFirst
  /\ response[1].messagesSynced > 0
  /\ response[2].status = 200
  /\ \A c \in Chats : telegram_chats[c].last_message_id > 0

====
